---- MODULE Spec2Model ----
(***************************************************************************)
(* Model of scripts/test-mcp-client.py: the .env loader, the MCPTestClient *)
(* (start_server / send_request / stop_server), the scenario runner        *)
(* test_basic_functionality, test_connection_only and main, together with  *)
(* the child server process and the operator's interrupt as environment.   *)
(***************************************************************************)
EXTENDS Integers, Sequences, FiniteSets, TLC

\* ------------------------------------------------------------------ bounds
MaxInterrupts == 1      \* operator interrupts (Ctrl-C) per execution
MaxOut == 1             \* lines pending in the child's stdout pipe
MaxCalls == 3           \* method calls issued by the driver of ClientSpec
MaxValueLen == 4        \* tokens of a value in a line of the .env file

\* ---------------------------------------------------- characters
\* The texts of the model (a line on the wire, a key in the script) are
\* written in the characters that a TLA+ string can hold: U+0001 .. U+00FF
\* but the grave accent U+0060, and U+1680.  A Python str that json.loads
\* has decoded may hold any character (an escape \uXXXX yields characters
\* that no text of the model can hold), so a decoded string is the
\* sequence of its code points.

\* the character of s at index i (from 1), "" outside the string
CharAt(s, i) == IF i >= 1 /\ i <= Len(s) THEN SubSeq(s, i, i) ELSE ""
\* the n characters of s from index i, "" when s is too short
Slice(s, i, n) ==
    IF i >= 1 /\ i + n - 1 <= Len(s) THEN SubSeq(s, i, i + n - 1) ELSE ""

\* the characters U+0001 .. U+001F in code point order
Controls == "" \o "\t\n" \o "" \o "\f\r" \o ""
\* the characters U+0020 .. U+005F and U+0061 .. U+007E in code point
\* order (a TLA+ string cannot hold the grave accent U+0060)
Printable == " !\"#$%&'()*+,-./0123456789:;<=>?@ABCDEFGHIJKLMNOPQRSTUVWXYZ[\\]^_"
PrintableHigh == "abcdefghijklmnopqrstuvwxyz{|}~"
\* the characters U+007F .. U+00FF in code point order
Latin1 == " ¡¢£¤¥¦§¨©ª«¬­®¯°±²³´µ¶·¸¹º»¼½¾¿ÀÁÂÃÄÅÆÇÈÉÊËÌÍÎÏÐÑÒÓÔÕÖ×ØÙÚÛÜÝÞßàáâãäåæçèéêëìíîïðñòóôõö÷øùúûüýþÿ"
\* ord(c) for every character c of a text: the character is looked up in
\* the run of the alphabet that holds it (each run with the code point of
\* its first character; the last run is the single character U+1680)
OrdTable ==
    LET runs == {<<Controls, 1>>, <<Printable, 32>>, <<PrintableHigh, 97>>,
                 <<Latin1, 127>>, <<" ", 5760>>}
        at(r, c) == {i \in 1..Len(r[1]) : CharAt(r[1], i) = c}
    IN [c \in UNION {{CharAt(r[1], i) : i \in 1..Len(r[1])} : r \in runs} |->
           LET r == CHOOSE q \in runs : at(q, c) # {}
           IN r[2] - 1 + CHOOSE i \in at(r, c) : TRUE]
\* the code points of a text
Codes(s) == [i \in 1..Len(s) |-> OrdTable[CharAt(s, i)]]

\* ------------------------------------------------- decoded JSON values
\* A decoded value is a record [t, v]: t is the Python type of the value
\* json.loads returns, v its content.  PyNone is also the value that
\* send_request returns on every failure path.
PyNone == [t |-> "null", v |-> 0]
PyRaise == [t |-> "raise", v |-> 0]
Num(n) == [t |-> "num", v |-> n]
\* a str, s the sequence of its code points
Str(s) == [t |-> "str", v |-> s]
List(s) == [t |-> "list", v |-> s]
\* a dict, f a function from the code points of a key to its value
Dict(f) == [t |-> "dict", v |-> f]
EmptyDict == Dict([k \in {} |-> PyNone])
Bool(b) == [t |-> "bool", v |-> b]
\* a number written with a fraction or an exponent, kept as its text
Float(text) == [t |-> "float", v |-> text]

Digits == {"0", "1", "2", "3", "4", "5", "6", "7", "8", "9"}
DigitValue ==
    [c \in Digits |->
        CASE c = "0" -> 0 [] c = "1" -> 1 [] c = "2" -> 2 [] c = "3" -> 3
          [] c = "4" -> 4 [] c = "5" -> 5 [] c = "6" -> 6 [] c = "7" -> 7
          [] c = "8" -> 8 [] OTHER -> 9]

\* index after the run of characters of set cs that starts at i
RunEnd(s, i, cs) ==
    CHOOSE k \in i..(Len(s) + 1) :
        /\ CharAt(s, k) \notin cs
        /\ \A m \in i..(k - 1) : CharAt(s, m) \in cs
\* index after the run of digits that starts at i
DigitsEnd(s, i) == RunEnd(s, i, Digits)

RECURSIVE IntValue(_, _, _, _)
\* value of the digits s[i..j-1], continuing from acc
IntValue(s, i, j, acc) ==
    IF i >= j THEN acc
    ELSE IntValue(s, i + 1, j, 10 * acc + DigitValue[CharAt(s, i)])

\* float(text) rounds to the nearest double, ties to even: the result is
\* zero exactly when the magnitude is at most 2^-1075, half of the smallest
\* positive double.  2^-1075 = 0.D * 10^-323, D the digits of 5^1075.
HalfMinDigits ==
    "2470328229206232720882843964341106861825299013071623822127928412"
    \o "5033775363510437593264991818081799618989828234772285886546332835"
    \o "5177969898199387398005390939063150356595155702263922908583924491"
    \o "0518443593180284993653615250031937045767824921936562366986365848"
    \o "0757001585769269903706311928279558551332927834338409351978015531"
    \o "2465972635795746227664652728272200563740064854999770965994704540"
    \o "2082816622623785739345073633900796776193057750674017632467360096"
    \o "8951340535537458516661134223766678604162159680461914467291840300"
    \o "5300575308490487653917113865916462395249126236538818796362393732"
    \o "8042389101867234849766823508986338858792562830275599565752445550"
    \o "7255189313690836254779186948667994968324049705821028513185451396"
    \o "213837722826145437693412532098591327667236328125"

\* 0.a > 0.b for two digit strings: at the first place where they differ
\* (a string that has ended continues with zeros) a has the larger digit
DigitsAbove(a, b) ==
    LET n == IF Len(a) > Len(b) THEN Len(a) ELSE Len(b)
        da(k) == IF k <= Len(a) THEN DigitValue[CharAt(a, k)] ELSE 0
        db(k) == IF k <= Len(b) THEN DigitValue[CharAt(b, k)] ELSE 0
    IN \E k \in 1..n : da(k) > db(k) /\ \A m \in 1..(k - 1) : da(m) = db(m)

\* float(text) == 0.0, for the text of a JSON number or of one of the
\* literals NaN, Infinity, -Infinity.  The text is cut up once, each part
\* bound to a name: start and intEnd delimit the integer digits, fracEnd
\* ends the fraction, digits are the digits of the mantissa, lead the
\* number of its leading zeros, expFirst the first exponent digit that is
\* not a leading zero, expAbs the magnitude of the exponent (exponents of
\* more than six digits are all alike: the value is zero or infinite
\* whatever the mantissa of a text is), and the value is
\* 0.d1 d2 ... * 10^point with d1 the first non-zero digit.
FloatIsZero(text) ==
    /\ text \notin {"NaN", "Infinity", "-Infinity"}
    /\ \E start \in {IF CharAt(text, 1) = "-" THEN 2 ELSE 1} :
       \E intEnd \in {DigitsEnd(text, start)} :
       \E fracEnd \in {IF CharAt(text, intEnd) = "."
                       THEN DigitsEnd(text, intEnd + 1) ELSE intEnd} :
       \E digits \in {SubSeq(text, start, intEnd - 1)
                          \o (IF fracEnd > intEnd
                              THEN SubSeq(text, intEnd + 1, fracEnd - 1)
                              ELSE "")} :
       \E lead \in {RunEnd(digits, 1, {"0"}) - 1} :
       \E expFirst \in {IF fracEnd > Len(text) THEN fracEnd
                        ELSE RunEnd(text,
                                    IF CharAt(text, fracEnd + 1) \in {"+", "-"}
                                    THEN fracEnd + 2 ELSE fracEnd + 1,
                                    {"0"})} :
       \E expAbs \in {IF fracEnd > Len(text) THEN 0
                      ELSE IF Len(text) + 1 - expFirst > 6 THEN 10000000
                      ELSE IntValue(text, expFirst, Len(text) + 1, 0)} :
       \E point \in {(intEnd - start) - lead
                         + (IF CharAt(text, fracEnd + 1) = "-"
                            THEN 0 - expAbs ELSE expAbs)} :
           \/ lead = Len(digits)
           \/ point < -323
           \/ /\ point = -323
              /\ ~DigitsAbove(SubSeq(digits, lead + 1, Len(digits)),
                              HalfMinDigits)

\* bool(x)
Truthy(x) ==
    CASE x.t = "null" -> FALSE
      [] x.t = "bool" -> x.v
      [] x.t = "num"  -> x.v # 0
      [] x.t = "float" -> ~FloatIsZero(x.v)
      [] x.t = "str"  -> Len(x.v) > 0
      [] x.t = "list" -> Len(x.v) > 0
      [] x.t = "dict" -> DOMAIN x.v # {}
      [] OTHER -> FALSE

\* `key in x` for a key written in the script: "yes", "no", or "raise"
\* (TypeError).
Contains(key, x) ==
    LET k == Codes(key) IN
    CASE x.t = "dict" -> IF k \in DOMAIN x.v THEN "yes" ELSE "no"
      [] x.t = "list" -> IF \E i \in 1..Len(x.v) :
                                x.v[i].t = "str" /\ x.v[i].v = k
                         THEN "yes" ELSE "no"
      [] x.t = "str"  -> IF \E i \in 0..(Len(x.v) - Len(k)) :
                                SubSeq(x.v, i + 1, i + Len(k)) = k
                         THEN "yes" ELSE "no"
      [] OTHER -> "raise"

\* x[key] for a key written in the script: the member, or PyRaise
\* (KeyError / TypeError).
GetItem(x, key) ==
    IF x.t = "dict" /\ Codes(key) \in DOMAIN x.v THEN x.v[Codes(key)]
    ELSE PyRaise

\* x.get(key, default): only mappings have .get (AttributeError otherwise).
DictGet(x, key, default) ==
    IF x.t # "dict" THEN PyRaise
    ELSE IF Codes(key) \in DOMAIN x.v THEN x.v[Codes(key)] ELSE default

\* len(x) is defined for str, list and dict only (TypeError otherwise).
HasLen(x) == x.t \in {"str", "list", "dict"}
\* x[:n] is defined for str and list (a mapping or a number raises).
Sliceable(x) == x.t \in {"str", "list"}

\* x[0]: first element of a list, first character of a string; raises on
\* an empty sequence, on a mapping with string keys and on a scalar.
First(x) ==
    CASE x.t = "list" /\ Len(x.v) > 0 -> x.v[1]
      [] x.t = "str" /\ Len(x.v) > 0 -> Str(<<x.v[1]>>)
      [] OTHER -> PyRaise

\* ------------------------------------------------- lines on the wire
\* Representative texts the child may print on its stdout (one per line).
LTools == "{\"jsonrpc\":\"2.0\",\"id\":1,\"result\":{\"tools\":[{\"name\":\"x\",\"description\":\"d\"}]}}"
LContent == "{\"jsonrpc\":\"2.0\",\"id\":1,\"result\":{\"content\":[{\"type\":\"text\",\"text\":\"db1\"}]}}"
LNoContent == "{\"jsonrpc\":\"2.0\",\"id\":1,\"result\":{\"content\":[]}}"
LBareResult == "{\"jsonrpc\":\"2.0\",\"id\":1,\"result\":{}}"
LError == "{\"jsonrpc\":\"2.0\",\"id\":1,\"error\":{\"code\":-32601,\"message\":\"Method not found\"}}"
LErrorNoMsg == "{\"jsonrpc\":\"2.0\",\"id\":1,\"error\":{\"code\":-32601}}"
LNumber == "5"
LNull == "null"
LText == "Server listening"
LString == "\"no result: an error\""
LList == "[\"result\"]"
LTrue == "true"
\* a result whose tools and content hold a number where a mapping is
\* expected: scenarios 1 and 2 print their success marker and then raise
LBadItems == "{\"jsonrpc\":\"2.0\",\"id\":1,\"result\":{\"tools\":[5],\"content\":[5]}}"
\* a result whose texts hold lone surrogates, which print() cannot always
\* encode: one that no error handler writes in the tool name, one that
\* surrogateescape writes in the content text
LSurrogate == "{\"jsonrpc\":\"2.0\",\"id\":1,\"result\":{\"tools\":[{\"name\":\"\\ud83d\",\"description\":\"d\"}],\"content\":[{\"type\":\"text\",\"text\":\"\\udc80\"}]}}"
\* a string holding a lone surrogate: every scenario prints its failure
\* marker, then the print of the response raises
LSurrogateText == "\"\\ud83d\""

Lines == {LTools, LContent, LNoContent, LBareResult, LError, LErrorNoMsg,
          LNumber, LNull, LText, LString, LList, LTrue, LBadItems,
          LSurrogate, LSurrogateText}

\* lines the child prints without having been asked (a log line)
Unsolicited == {LText}

\* ------------------------------------------------- json.loads
\* A text is decoded character by character, as json.loads does: blanks
\* around the value, the literals null / true / false / NaN / Infinity,
\* numbers, strings with their escapes, arrays and objects.  Every parse
\* function returns [ok, v, i]: whether a value was read, the value, and
\* the index of the first character after it.
JsonBlank == {" ", "\t", "\n", "\r"}
\* the blanks of str.strip(): the characters of the alphabet that
\* str.isspace() accepts (U+0009 .. U+000D, U+001C .. U+0020, U+0085,
\* U+00A0 and U+1680)
PyBlank ==
    JsonBlank \cup {"\f"}
        \cup {CharAt(Controls, n) : n \in {11, 28, 29, 30, 31}}
        \cup {CharAt(Latin1, n - 126) : n \in {133, 160}}
        \cup {" "}

Parsed(v, i) == [ok |-> TRUE, v |-> v, i |-> i]
ParseFail == [ok |-> FALSE, v |-> PyRaise, i |-> 0]

SkipBlank(s, i) == RunEnd(s, i, JsonBlank)

\* -?(0|[1-9][0-9]*)(\.[0-9]+)?([eE][-+]?[0-9]+)?
ParseNumber(s, i) ==
    LET neg == CharAt(s, i) = "-"
        d == IF neg THEN i + 1 ELSE i
        intEnd == IF CharAt(s, d) = "0" THEN d + 1 ELSE DigitsEnd(s, d)
        fracEnd == IF CharAt(s, intEnd) = "." /\ CharAt(s, intEnd + 1) \in Digits
                   THEN DigitsEnd(s, intEnd + 1) ELSE intEnd
        expDigits == IF CharAt(s, fracEnd) \in {"e", "E"}
                     THEN IF CharAt(s, fracEnd + 1) \in {"+", "-"}
                          THEN fracEnd + 2 ELSE fracEnd + 1
                     ELSE 0
        expEnd == IF expDigits > 0 /\ CharAt(s, expDigits) \in Digits
                  THEN DigitsEnd(s, expDigits) ELSE fracEnd
    IN IF intEnd = d THEN ParseFail
       ELSE IF expEnd = intEnd
       THEN Parsed(Num(IF neg THEN 0 - IntValue(s, d, intEnd, 0)
                       ELSE IntValue(s, d, intEnd, 0)), intEnd)
       ELSE Parsed(Float(SubSeq(s, i, expEnd - 1)), expEnd)

\* the code point an escape sequence \c stands for, -1 when c is no escape
Unescape(c) ==
    CASE c = "\"" -> 34
      [] c = "\\" -> 92
      [] c = "/" -> 47
      [] c = "b" -> 8
      [] c = "f" -> 12
      [] c = "n" -> 10
      [] c = "r" -> 13
      [] c = "t" -> 9
      [] OTHER -> -1

\* value of a hexadecimal digit, -1 for any other character
HexValue(c) ==
    CASE c \in Digits -> DigitValue[c]
      [] c \in {"a", "A"} -> 10
      [] c \in {"b", "B"} -> 11
      [] c \in {"c", "C"} -> 12
      [] c \in {"d", "D"} -> 13
      [] c \in {"e", "E"} -> 14
      [] c \in {"f", "F"} -> 15
      [] OTHER -> -1

\* value of the four hexadecimal digits s[i..i+3], -1 when one of them is
\* no hexadecimal digit
Hex4(s, i) ==
    IF \E k \in 0..3 : HexValue(CharAt(s, i + k)) < 0 THEN -1
    ELSE 4096 * HexValue(CharAt(s, i)) + 256 * HexValue(CharAt(s, i + 1))
             + 16 * HexValue(CharAt(s, i + 2)) + HexValue(CharAt(s, i + 3))

\* index after the run of characters from s[i] on that a string holds as
\* they are: everything but the quote, the backslash and the control
\* characters
PlainEnd(s, i) ==
    CHOOSE k \in i..(Len(s) + 1) :
        /\ \/ CharAt(s, k) \in {"", "\"", "\\"}
           \/ OrdTable[CharAt(s, k)] < 32
        /\ \A m \in i..(k - 1) :
               /\ CharAt(s, m) \notin {"\"", "\\"}
               /\ OrdTable[CharAt(s, m)] >= 32

RECURSIVE ParseChars(_, _, _)
\* the rest of a string from s[i] on, which is its closing quote, a
\* backslash, a control character or the end of the text; acc holds the
\* code points decoded so far.  A raw control character ends the decoding
\* with an error.  The four digits of \uXXXX must be followed by at least
\* one character; a high surrogate followed by the escape of a low
\* surrogate (itself followed by a character) makes one character with it.
ParseEscape(s, i, acc) ==
    IF CharAt(s, i) = "\"" THEN Parsed(Str(acc), i + 1)
    ELSE IF CharAt(s, i) # "\\" THEN ParseFail
    ELSE IF CharAt(s, i + 1) = "u"
    THEN IF i + 6 > Len(s) \/ Hex4(s, i + 2) < 0 THEN ParseFail
         ELSE IF /\ Hex4(s, i + 2) >= 55296 /\ Hex4(s, i + 2) <= 56319
                 /\ i + 12 <= Len(s)
                 /\ Slice(s, i + 6, 2) = "\\u"
         THEN IF Hex4(s, i + 8) < 0 THEN ParseFail
              ELSE IF Hex4(s, i + 8) >= 56320 /\ Hex4(s, i + 8) <= 57343
              THEN ParseChars(s, i + 12,
                       Append(acc, 65536 + 1024 * (Hex4(s, i + 2) - 55296)
                                       + (Hex4(s, i + 8) - 56320)))
              ELSE ParseChars(s, i + 6, Append(acc, Hex4(s, i + 2)))
         ELSE ParseChars(s, i + 6, Append(acc, Hex4(s, i + 2)))
    ELSE IF Unescape(CharAt(s, i + 1)) < 0 THEN ParseFail
    ELSE ParseChars(s, i + 2, Append(acc, Unescape(CharAt(s, i + 1))))

\* the characters of a string after its opening quote, up to the closing
\* quote: a run of plain characters is taken as it is, then comes what
\* ends the run
ParseChars(s, i, acc) ==
    ParseEscape(s, PlainEnd(s, i),
                acc \o Codes(SubSeq(s, i, PlainEnd(s, i) - 1)))

RECURSIVE ParseValue(_, _)
RECURSIVE ParseItems(_, _, _)
RECURSIVE ParseMembers(_, _, _)

\* the items of an array after the first one: s[i] is ',' or ']'
ParseItems(s, i, acc) ==
    LET j == SkipBlank(s, i) IN
    IF CharAt(s, j) = "]" THEN Parsed(List(acc), j + 1)
    ELSE IF CharAt(s, j) # "," THEN ParseFail
    ELSE LET item == ParseValue(s, SkipBlank(s, j + 1)) IN
         IF ~item.ok THEN ParseFail
         ELSE ParseItems(s, item.i, Append(acc, item.v))

\* one "key": value pair of an object starting at s[i], then the rest
ParseMembers(s, i, acc) ==
    IF CharAt(s, i) # "\"" THEN ParseFail
    ELSE LET key == ParseChars(s, i + 1, <<>>) IN
         IF ~key.ok THEN ParseFail
         ELSE LET colon == SkipBlank(s, key.i) IN
              IF CharAt(s, colon) # ":" THEN ParseFail
              ELSE LET value == ParseValue(s, SkipBlank(s, colon + 1)) IN
                   IF ~value.ok THEN ParseFail
                   ELSE LET members == [k \in DOMAIN acc \cup {key.v.v} |->
                                           IF k = key.v.v THEN value.v
                                           ELSE acc[k]]
                            next == SkipBlank(s, value.i)
                        IN IF CharAt(s, next) = "}"
                           THEN Parsed(Dict(members), next + 1)
                           ELSE IF CharAt(s, next) # "," THEN ParseFail
                           ELSE ParseMembers(s, SkipBlank(s, next + 1),
                                             members)

\* one JSON value starting at s[i]
ParseValue(s, i) ==
    LET c == CharAt(s, i) IN
    CASE c = "\"" -> ParseChars(s, i + 1, <<>>)
      [] c = "{" ->
           LET j == SkipBlank(s, i + 1) IN
           IF CharAt(s, j) = "}" THEN Parsed(EmptyDict, j + 1)
           ELSE ParseMembers(s, j, EmptyDict.v)
      [] c = "[" ->
           LET j == SkipBlank(s, i + 1) IN
           IF CharAt(s, j) = "]" THEN Parsed(List(<<>>), j + 1)
           ELSE LET item == ParseValue(s, j) IN
                IF ~item.ok THEN ParseFail
                ELSE ParseItems(s, item.i, <<item.v>>)
      [] Slice(s, i, 4) = "null" -> Parsed(PyNone, i + 4)
      [] Slice(s, i, 4) = "true" -> Parsed(Bool(TRUE), i + 4)
      [] Slice(s, i, 5) = "false" -> Parsed(Bool(FALSE), i + 5)
      [] Slice(s, i, 3) = "NaN" -> Parsed(Float("NaN"), i + 3)
      [] Slice(s, i, 8) = "Infinity" -> Parsed(Float("Infinity"), i + 8)
      [] Slice(s, i, 9) = "-Infinity" -> Parsed(Float("-Infinity"), i + 9)
      [] OTHER -> ParseNumber(s, i)

\* the decoding of one text: the value, or PyRaise (JSONDecodeError) when
\* no value can be read or something other than blanks follows it
Decode(text) ==
    LET r == ParseValue(text, SkipBlank(text, 1)) IN
    IF r.ok /\ SkipBlank(text, r.i) = Len(text) + 1 THEN r.v ELSE PyRaise

\* the decodings of the representative lines, computed once
Decoded == [text \in Lines |-> Decode(text)]

\* json.loads(text)
JsonLoads(text) == IF text \in Lines THEN Decoded[text] ELSE Decode(text)

\* ------------------------------------------------- scenario predicates
\* Each returns [out, raised]: out is the marker the scenario printed
\* ("pass" for the check mark, "fail" for the cross, "warn" for the warning
\* sign, "crash" when it raised before printing one); raised tells whether
\* the scenario's code raised an exception (caught by the runner's
\* `except Exception`).  errors is sys.stdout.errors.
Verdict(o, r) == [out |-> o, raised |-> r]

\* the surrogate code points: UTF-8 has no encoding for them
Surrogates == 55296..57343
\* print(s) raises UnicodeEncodeError: sys.stdout encodes to UTF-8, which
\* fails on a surrogate, unless the handler is "surrogateescape" and the
\* surrogate is one of U+DC80 .. U+DCFF, which it writes as a byte
PrintRaises(s, errors) ==
    \E i \in 1..Len(s) :
        /\ s[i] \in Surrogates
        /\ ~(errors = "surrogateescape" /\ s[i] \in 56448..56575)

\* print(f"...{x}..."): a str is printed as it is; the text of any other
\* value is its repr, in which a surrogate is written as an escape
FormatRaises(x, errors) == x.t = "str" /\ PrintRaises(x.v, errors)

\* s before its n-th newline, all of s when it has fewer: the text of
\* s.split('\n')[:n]
HeadLines(s, n) ==
    LET nl == {i \in 1..Len(s) : s[i] = 10} IN
    IF Cardinality(nl) < n THEN s
    ELSE SubSeq(s, 1, (CHOOSE i \in nl :
                           Cardinality({j \in nl : j <= i}) = n) - 1)

\* `response and "result" in response`: "yes", "no" or "raise".
HasMember(response, member) ==
    IF ~Truthy(response) THEN "no" ELSE Contains(member, response)

\* One iteration of `for tool in tools[:5]` raises unless the tool is a
\* mapping with a name and a sliceable description, and the line made of
\* the name and of description[:60] can be printed.
ToolRaises(tool, errors) ==
    LET description == GetItem(tool, "description") IN
    \/ GetItem(tool, "name").t = "raise"
    \/ ~Sliceable(description)
    \/ FormatRaises(GetItem(tool, "name"), errors)
    \/ /\ description.t = "str"
       /\ PrintRaises(SubSeq(description.v, 1,
                             IF Len(description.v) > 60 THEN 60
                             ELSE Len(description.v)),
                      errors)

ToolsLoopRaises(tools, errors) ==
    CASE tools.t = "list" ->
           \E i \in 1..Len(tools.v) :
               i <= 5 /\ ToolRaises(tools.v[i], errors)
      [] tools.t = "str" -> Len(tools.v) > 0
      [] OTHER -> TRUE

Scenario1(response, errors) ==
    LET has == HasMember(response, "result") IN
    IF has = "raise" THEN Verdict("crash", TRUE)
    ELSE IF has = "no" THEN Verdict("fail", FormatRaises(response, errors))
    ELSE LET tools == GetItem(GetItem(response, "result"), "tools") IN
         IF tools.t = "raise" \/ ~HasLen(tools) THEN Verdict("crash", TRUE)
         ELSE Verdict("pass", ToolsLoopRaises(tools, errors))

\* the lines that follow the pass marker of scenario 2 raise: content[0]
\* has no .get, its type cannot be printed, or the type is "text" and the
\* text is not a str or one of its first three lines cannot be printed
ContentDetailRaises(content, errors) ==
    LET item == First(content) IN
    \/ item.t # "dict"
    \/ FormatRaises(DictGet(item, "type", Str(Codes("unknown"))), errors)
    \/ LET type == DictGet(item, "type", PyNone)
           text == DictGet(item, "text", Str(<<>>))
       IN /\ type.t = "str" /\ type.v = Codes("text")
          /\ \/ text.t # "str"
             \/ PrintRaises(HeadLines(text.v, 3), errors)

Scenario2(response, errors) ==
    LET has == HasMember(response, "result") IN
    IF has = "raise" THEN Verdict("crash", TRUE)
    ELSE IF has = "no" THEN Verdict("fail", FormatRaises(response, errors))
    ELSE LET content == GetItem(GetItem(response, "result"), "content") IN
         IF content.t = "raise" THEN Verdict("crash", TRUE)
         ELSE IF ~Truthy(content) THEN Verdict("warn", FALSE)
         ELSE IF ~HasLen(content) THEN Verdict("crash", TRUE)
         ELSE Verdict("pass", ContentDetailRaises(content, errors))

Scenario3(response, errors) ==
    LET has == HasMember(response, "result") IN
    IF has = "raise" THEN Verdict("crash", TRUE)
    ELSE IF has = "no" THEN Verdict("fail", FormatRaises(response, errors))
    ELSE Verdict("pass", FALSE)

Scenario4(response, errors) ==
    LET has == HasMember(response, "error") IN
    IF has = "raise" THEN Verdict("crash", TRUE)
    ELSE IF has = "no" THEN Verdict("warn", FALSE)
    ELSE LET message == GetItem(GetItem(response, "error"), "message") IN
         Verdict("pass", message.t = "raise" \/ FormatRaises(message, errors))

Classify(k, response, errors) ==
    CASE k = 1 -> Scenario1(response, errors)
      [] k = 2 -> Scenario2(response, errors)
      [] k = 3 -> Scenario3(response, errors)
      [] OTHER -> Scenario4(response, errors)

\* ------------------------------------------------- the .env loader
\* A line of the file is a sequence of tokens: the characters that the
\* loader inspects (each blank of str.strip(), '#', '=', the two quotes)
\* are tokens of their own, every other token is a run of ordinary
\* characters.
Blank == " "
Tab == "\t"
Hash == "#"
Equals == "="
DQuote == "\""
SQuote == "'"

RECURSIVE Join(_)
\* the text of a token sequence
Join(s) == IF s = <<>> THEN "" ELSE Head(s) \o Join(Tail(s))

RECURSIVE LStrip(_)
LStrip(s) ==
    IF s # <<>> /\ Head(s) \in PyBlank THEN LStrip(Tail(s)) ELSE s

RECURSIVE RStrip(_)
RStrip(s) ==
    IF s # <<>> /\ s[Len(s)] \in PyBlank
    THEN RStrip(SubSeq(s, 1, Len(s) - 1))
    ELSE s

\* str.strip()
PyStrip(s) == RStrip(LStrip(s))

\* index of the first '=' of the line, 0 when there is none
FirstEquals(s) ==
    IF \E i \in 1..Len(s) : s[i] = Equals
    THEN CHOOSE i \in 1..Len(s) :
            s[i] = Equals /\ \A j \in 1..(i - 1) : s[j] # Equals
    ELSE 0

\* `line and not line.startswith('#') and '=' in line`
WellFormed(line) ==
    /\ line # <<>>
    /\ line[1] # Hash
    /\ FirstEquals(line) > 0

\* removal of one layer of surrounding quotes (value[1:-1])
Unquote(value) ==
    IF value # <<>> /\ value[1] = DQuote /\ value[Len(value)] = DQuote
    THEN SubSeq(value, 2, Len(value) - 1)
    ELSE IF value # <<>> /\ value[1] = SQuote /\ value[Len(value)] = SQuote
    THEN SubSeq(value, 2, Len(value) - 1)
    ELSE value

LineKey(line) == Join(PyStrip(SubSeq(line, 1, FirstEquals(line) - 1)))
LineValue(line) ==
    Join(Unquote(PyStrip(SubSeq(line, FirstEquals(line) + 1, Len(line)))))

\* os.environ[key] = value
SetEnv(e, key, value) ==
    [k \in DOMAIN e \cup {key} |-> IF k = key THEN value ELSE e[k]]

\* LoadLine testing `if not os.environ.get(key)`: a variable that is set
\* to the empty string is taken from the file
LoadLine_unless_truthy(e, raw) ==
    LET line == PyStrip(raw) IN
    IF ~WellFormed(line) THEN [env |-> e, raised |-> FALSE]
    ELSE IF LineKey(line) \in DOMAIN e /\ e[LineKey(line)] # ""
    THEN [env |-> e, raised |-> FALSE]
    ELSE IF LineKey(line) = "" THEN [env |-> e, raised |-> TRUE]
    ELSE [env |-> SetEnv(e, LineKey(line), LineValue(line)),
          raised |-> FALSE]

\* LoadLine without the `if key not in os.environ` test
LoadLine_always_sets(e, raw) ==
    LET line == PyStrip(raw) IN
    IF ~WellFormed(line) THEN [env |-> e, raised |-> FALSE]
    ELSE IF LineKey(line) = "" THEN [env |-> e, raised |-> TRUE]
    ELSE [env |-> SetEnv(e, LineKey(line), LineValue(line)),
          raised |-> FALSE]

\* The body of the loop for one raw line.  The result is [env, raised]:
\* assigning to an empty variable name raises OSError in os.environ.
LoadLine(e, raw) ==
    LET line == PyStrip(raw) IN
    IF ~WellFormed(line) THEN [env |-> e, raised |-> FALSE]
    ELSE IF LineKey(line) \in DOMAIN e THEN [env |-> e, raised |-> FALSE]
    ELSE IF LineKey(line) = "" THEN [env |-> e, raised |-> TRUE]
    ELSE [env |-> SetEnv(e, LineKey(line), LineValue(line)),
          raised |-> FALSE]

RECURSIVE LoadLines(_, _)
LoadLines(e, lines) ==
    IF lines = <<>> THEN [env |-> e, raised |-> FALSE]
    ELSE LET r == LoadLine(e, Head(lines)) IN
         IF r.raised THEN r ELSE LoadLines(r.env, Tail(lines))

\* load_env_file: a file is [exists, lines]
load_env_file(e, file) ==
    IF file.exists THEN LoadLines(e, file.lines)
    ELSE [env |-> e, raised |-> FALSE]

\* os.getenv(key, default)
GetEnv(e, key, default) == IF key \in DOMAIN e THEN e[key] ELSE default

NoEnv == [k \in {} |-> ""]
NoFile == [exists |-> FALSE, lines |-> <<>>]
File(lines) == [exists |-> TRUE, lines |-> lines]

RequiredVars == {"NDB_BASE_URL", "NDB_USERNAME", "NDB_PASSWORD"}

\* `[var for var in required_vars if not os.getenv(var)]`
MissingVars(e) == {var \in RequiredVars : GetEnv(e, var, "") = ""}

\* the server_env mapping built by test_basic_functionality
ServerEnv(e) ==
    [NDB_BASE_URL |-> GetEnv(e, "NDB_BASE_URL", "https://your-ndb-server.com"),
     NDB_USERNAME |-> GetEnv(e, "NDB_USERNAME", "admin"),
     NDB_PASSWORD |-> GetEnv(e, "NDB_PASSWORD", "password"),
     NDB_VERIFY_SSL |-> GetEnv(e, "NDB_VERIFY_SSL", "true")]

\* Environments and files the executions start from.
EnvFull == SetEnv(SetEnv(SetEnv(NoEnv, "NDB_BASE_URL", "https://ndb"),
                         "NDB_USERNAME", "root"), "NDB_PASSWORD", "pw")
EnvPartial == SetEnv(SetEnv(NoEnv, "NDB_BASE_URL", "https://ndb"),
                     "NDB_PASSWORD", "")
EnvUrl == SetEnv(NoEnv, "NDB_BASE_URL", "https://ndb")

FileFull == File(<<
    <<Hash, Blank, "settings">>,
    <<"NDB_BASE_URL", Equals, DQuote, "https://file", DQuote>>,
    <<>>,
    <<"NDB_USERNAME", Blank, Equals, Blank, "admin", Blank>>,
    <<"NDB_PASSWORD", Equals, SQuote, "secret", SQuote>> >>)
FileUserOnly == File(<<
    <<"NDB_USERNAME", Equals, "admin">>,
    <<"NDB_USERNAME", Equals, "other">>,
    <<"no separator">> >>)
FileEmptyKey == File(<< <<Equals, "x">> >>)
\* the error handlers sys.stdout can have: "strict", or "surrogateescape"
\* when the interpreter starts in the C or POSIX locale or in UTF-8 mode;
\* its encoding is UTF-8, which writes every character but the surrogates
StdoutErrors == {"strict", "surrogateescape"}
\* <<os.environ, .env file, sys.stdout.errors>> at the start of an
\* execution
Configs == {<<NoEnv, NoFile, "strict">>,
            <<EnvUrl, FileUserOnly, "surrogateescape">>,
            <<EnvFull, FileEmptyKey, "strict">>,
            <<EnvPartial, FileFull, "strict">>,
            <<EnvUrl, FileFull, "surrogateescape">>,
            <<EnvFull, NoFile, "strict">>}

\* ------------------------------------------------------------ state
VARIABLES
    mode,        \* "main": the script runs from main(); "driver": the
                 \* methods of one MCPTestClient are called in any order;
                 \* "loader": load_env_file is called on its own
    stdoutErrors, \* sys.stdout.errors, the error handler of print()
    envFile,     \* the .env file of the working directory
    built,       \* os.path.exists("dist/index.js")
    pc,          \* control location of the script
    env,         \* os.environ
    choice,      \* the menu answer read by input()
    client,      \* the MCPTestClient: [exists, env, process]
    childState,  \* the server process: "none", "running" or "exited"
    childFds,    \* the ends of the stdin / stdout pipes that the server
                 \* process, or a process it has started (which inherits
                 \* them), holds open
    inbuf,       \* requests written to the child's stdin, not yet consumed
    outbuf,      \* lines written by the child to its stdout, not yet read:
                 \* [re], re the scenario whose request the line answers
                 \* (history), 0 for a line nobody asked for; nothing
                 \* looks at the text of a line before readline() returns
                 \* it, so the text is drawn when the line is read
    signals,     \* termination signals delivered to the attached child
    handles,     \* pipe objects of the Popen that are still open
    response,    \* the local variable `response` of the caller
    scen,        \* scenario whose request is sent or classified (1..4)
    pending,     \* an interrupt is propagating out of the runner
    interrupts,  \* operator interrupts so far
    exitStatus,  \* exit status of the script, -1 while it runs
    trace,       \* history: spawn / write / read / stop / term / stop_ret
    outcome,     \* history: marker printed by each scenario, "none" while
                 \* the code of the scenario has not run
    printed,     \* history: messages printed by the runner and by main
    sendResult,  \* history: the path the latest send_request returned by
    connSpawned, \* history: the connectivity check was spawned
    calls        \* method calls made by the driver

vars == <<mode, stdoutErrors, envFile, built, pc, env, choice, client, childState, childFds, inbuf,
          outbuf, signals, handles, response, scen, pending, interrupts,
          exitStatus, trace, outcome, printed, sendResult, connSpawned,
          calls>>

Scenarios == 1..4
NoClient == [exists |-> FALSE, env |-> NoEnv, process |-> "None"]
\* MCPTestClient.__init__
NewClient(server_env) ==
    [exists |-> TRUE, env |-> server_env, process |-> "None"]
AllHandles == {"stdin", "stdout", "stderr"}
\* the pipe ends of the child that the client talks to
ChildEnds == {"stdin", "stdout"}
Ev(e, k, ok) == [e |-> e, k |-> k, ok |-> ok]

\* The request envelope send_request builds for scenario k; request_id is
\* never passed by the caller, so it keeps its default 1.
Request(k) ==
    [jsonrpc |-> "2.0",
     id |-> 1,
     method |-> IF k = 1 THEN "tools/list" ELSE "tools/call",
     params |-> CASE k = 1 -> "absent"
                  [] k = 2 -> "ndb_list_databases"
                  [] k = 3 -> "ndb_list_clusters"
                  [] OTHER -> "invalid_tool_name"]

\* the scenario that built a request
ScenOf(request) == CHOOSE k \in Scenarios : Request(k) = request
\* a line in the child's stdout pipe
OutLine(re) == [re |-> re]
\* the texts a pending line can turn out to have
Texts(line) == IF line.re = 0 THEN Unsolicited ELSE Lines

\* readline() on the child's stdout: the text of the line and its newline
ReadLine(text) == text \o "\n"
RECURSIVE StripLine(_)
\* response_line.strip(): blanks removed at both ends
StripLine(s) ==
    IF s # "" /\ CharAt(s, 1) \in PyBlank
    THEN StripLine(SubSeq(s, 2, Len(s)))
    ELSE IF s # "" /\ CharAt(s, Len(s)) \in PyBlank
    THEN StripLine(SubSeq(s, 1, Len(s) - 1))
    ELSE s

\* Where control goes when a client method returns or raises.
AfterStart == IF mode = "driver" THEN "idle" ELSE "send"
AfterSend == IF mode = "driver" THEN "idle" ELSE "classify"
AfterStop ==
    IF mode = "driver" THEN "idle"
    ELSE IF pending THEN "main_ki" ELSE "tbf_return"
Raised == IF mode = "driver" THEN "idle" ELSE "except_exc"

MenuInputs == {"1", "2", "3", "9", "EOF"}
ConnResults == {"passed", "failed", "timeout", "notfound", "error"}

Init ==
    /\ mode = "main"
    /\ \E c \in Configs :
          env = c[1] /\ envFile = c[2] /\ stdoutErrors = c[3]
    /\ built \in BOOLEAN
    /\ pc = "main"
    /\ choice = ""
    /\ client = NoClient
    /\ childState = "none"
    /\ childFds = {}
    /\ inbuf = <<>>
    /\ outbuf = <<>>
    /\ signals = 0
    /\ handles = {}
    /\ response = PyNone
    /\ scen = 1
    /\ pending = FALSE
    /\ interrupts = 0
    /\ exitStatus = -1
    /\ trace = <<>>
    /\ outcome = [k \in Scenarios |-> "none"]
    /\ printed = {}
    /\ sendResult = "none"
    /\ connSpawned = FALSE
    /\ calls = 0

\* --------------------------------------------------- MCPTestClient
start_server ==
    /\ pc = "start"
    /\ \/ \* a new child is created and attached.  A process that was
          \* attached before is dropped as it is: it is sent no signal
          \* and is not waited for, its pipes are closed on the client's
          \* side, and nothing refers to it any more ("orphan" when it
          \* was still running)
          /\ client' = [client EXCEPT !.process = "Popen"]
          /\ childState' = "running"
          /\ childFds' = ChildEnds
          /\ inbuf' = <<>>
          /\ outbuf' = <<>>
          /\ signals' = 0
          /\ handles' = AllHandles
          /\ trace' = IF client.process # "None" /\ childState = "running"
                       THEN trace \o <<Ev("orphan", 0, TRUE),
                                       Ev("spawn", 0, TRUE)>>
                       ELSE Append(trace, Ev("spawn", 0, TRUE))
          /\ pc' = AfterStart
       \/ \* Popen raises: the executable cannot be launched; self.process
          \* keeps what it held
          /\ trace' = Append(trace, Ev("spawn", 0, FALSE))
          /\ pc' = Raised
          /\ UNCHANGED <<client, childState, childFds, inbuf, outbuf,
                         signals, handles>>
    /\ UNCHANGED <<mode, stdoutErrors, envFile, built, env, choice, response, scen,
                   printed, sendResult,
                   pending, interrupts, exitStatus, outcome, connSpawned,
                   calls>>

\* send_request_write that writes the request line twice before flushing
send_request_write_twice ==
    /\ pc = "send"
    /\ IF client.process = "None"
       THEN /\ sendResult' = "not_started"
            /\ response' = PyNone
            /\ pc' = AfterSend
            /\ UNCHANGED <<inbuf, trace>>
       ELSE IF "stdin" \in childFds
       THEN /\ inbuf' = inbuf \o <<Request(scen), Request(scen)>>
            /\ trace' = Append(trace, Ev("write", scen, TRUE))
            /\ pc' = "sr_read"
            /\ sendResult' = "none"
            /\ response' = PyNone
       ELSE /\ trace' = Append(trace, Ev("write", scen, FALSE))
            /\ sendResult' = "transport_error"
            /\ response' = PyNone
            /\ pc' = AfterSend
            /\ UNCHANGED inbuf
    /\ UNCHANGED <<mode, stdoutErrors, envFile, built, env, choice, client, childState, childFds,
                   outbuf, signals, handles, scen, pending, interrupts,
                   exitStatus, outcome, printed, connSpawned, calls>>

\* send_request_write that writes the request line a second time when the
\* pipe is broken
send_request_write_retry ==
    /\ pc = "send"
    /\ IF client.process = "None"
       THEN /\ sendResult' = "not_started"
            /\ response' = PyNone
            /\ pc' = AfterSend
            /\ UNCHANGED <<inbuf, trace>>
       ELSE IF "stdin" \in childFds
       THEN /\ inbuf' = Append(inbuf, Request(scen))
            /\ trace' = Append(trace, Ev("write", scen, TRUE))
            /\ pc' = "sr_read"
            /\ sendResult' = "none"
            /\ response' = PyNone
       ELSE /\ trace' = trace \o <<Ev("write", scen, FALSE),
                                   Ev("write", scen, FALSE)>>
            /\ sendResult' = "transport_error"
            /\ response' = PyNone
            /\ pc' = AfterSend
            /\ UNCHANGED inbuf
    /\ UNCHANGED <<mode, stdoutErrors, envFile, built, env, choice, client, childState, childFds,
                   outbuf, signals, handles, scen, pending, interrupts,
                   exitStatus, outcome, printed, connSpawned, calls>>

\* send_request_write without the `if not self.process` guard: the write
\* is attempted on the missing process and its error is caught
send_request_write_unguarded ==
    /\ pc = "send"
    /\ IF client.process # "None" /\ "stdin" \in childFds
       THEN /\ inbuf' = Append(inbuf, Request(scen))
            /\ trace' = Append(trace, Ev("write", scen, TRUE))
            /\ pc' = "sr_read"
            /\ sendResult' = "none"
            /\ response' = PyNone
       ELSE /\ trace' = Append(trace, Ev("write", scen, FALSE))
            /\ sendResult' = "transport_error"
            /\ response' = PyNone
            /\ pc' = AfterSend
            /\ UNCHANGED inbuf
    /\ UNCHANGED <<mode, stdoutErrors, envFile, built, env, choice, client, childState, childFds,
                   outbuf, signals, handles, scen, pending, interrupts,
                   exitStatus, outcome, printed, connSpawned, calls>>

\* send_request up to the flush of the request line.  The caller's
\* `response` is dead from the call to the return (nothing reads it and
\* every return path assigns it), so the value of the previous call is
\* dropped when the request has been written.
send_request_write ==
    /\ pc = "send"
    /\ IF client.process = "None"
       THEN \* "Server not started"
            /\ sendResult' = "not_started"
            /\ response' = PyNone
            /\ pc' = AfterSend
            /\ UNCHANGED <<inbuf, trace>>
       ELSE IF "stdin" \in childFds
       THEN /\ inbuf' = Append(inbuf, Request(scen))
            /\ trace' = Append(trace, Ev("write", scen, TRUE))
            /\ pc' = "sr_read"
            /\ sendResult' = "none"
            /\ response' = PyNone
       ELSE \* nobody reads the pipe (the child has exited or has closed
            \* its stdin): BrokenPipeError, caught by `except Exception`,
            \* "Error sending request"
            /\ trace' = Append(trace, Ev("write", scen, FALSE))
            /\ sendResult' = "transport_error"
            /\ response' = PyNone
            /\ pc' = AfterSend
            /\ UNCHANGED inbuf
    /\ UNCHANGED <<mode, stdoutErrors, envFile, built, env, choice, client, childState, childFds,
                   outbuf, signals, handles, scen, pending, interrupts,
                   exitStatus, outcome, printed, connSpawned, calls>>

\* send_request_read that returns the text of a line that does not decode
\* instead of None
send_request_read_returns_text ==
    /\ pc = "sr_read"
    /\ \/ /\ outbuf # <<>>
          /\ outbuf' = Tail(outbuf)
          /\ \E text \in Texts(Head(outbuf)) :
             \E value \in {JsonLoads(StripLine(ReadLine(text)))} :
             IF value.t = "raise"
             THEN /\ response' = Str(Codes(StripLine(ReadLine(text))))
                  /\ sendResult' = "decode_error"
             ELSE /\ response' = value
                  /\ sendResult' = "value"
          /\ trace' = Append(trace, Ev("read", scen, TRUE))
       \/ /\ outbuf = <<>>
          /\ "stdout" \notin childFds
          /\ outbuf' = outbuf
          /\ response' = PyNone
          /\ sendResult' = "no_response"
          /\ trace' = Append(trace, Ev("read", scen, FALSE))
    /\ pc' = AfterSend
    /\ UNCHANGED <<mode, stdoutErrors, envFile, built, env, choice, client, childState, childFds,
                   inbuf, signals, handles, scen, pending, interrupts,
                   exitStatus, outcome, printed, connSpawned, calls>>

\* send_request from readline() to its return; blocks while nothing is
\* pending and the child holds its stdout open, returns "" (end of file)
\* when nothing is pending and the child has exited or closed its stdout
send_request_read ==
    /\ pc = "sr_read"
    /\ \/ /\ outbuf # <<>>
          /\ outbuf' = Tail(outbuf)
          /\ \E text \in Texts(Head(outbuf)) :
             \E value \in {JsonLoads(StripLine(ReadLine(text)))} :
             IF value.t = "raise"
             THEN \* JSONDecodeError, caught: "Error sending request"
                  /\ response' = PyNone
                  /\ sendResult' = "decode_error"
             ELSE /\ response' = value
                  /\ sendResult' = "value"
          /\ trace' = Append(trace, Ev("read", scen, TRUE))
       \/ /\ outbuf = <<>>
          /\ "stdout" \notin childFds
          /\ outbuf' = outbuf
          /\ response' = PyNone
          /\ sendResult' = "no_response"
          /\ trace' = Append(trace, Ev("read", scen, FALSE))
    /\ pc' = AfterSend
    /\ UNCHANGED <<mode, stdoutErrors, envFile, built, env, choice, client, childState, childFds,
                   inbuf, signals, handles, scen, pending, interrupts,
                   exitStatus, outcome, printed, connSpawned, calls>>

\* stop_server_terminate that signals the process without polling it first
stop_server_terminate_nopoll ==
    /\ pc = "stop"
    /\ IF client.process = "None"
       THEN /\ trace' = trace \o <<Ev("stop", 0, FALSE), Ev("stop_ret", 0, FALSE)>>
            /\ pc' = AfterStop
            /\ UNCHANGED signals
       ELSE /\ trace' = trace \o <<Ev("stop", 0, TRUE), Ev("term", 0, TRUE)>>
            /\ signals' = signals + 1
            /\ pc' = "ss_wait"
    /\ UNCHANGED <<mode, stdoutErrors, envFile, built, env, choice, client, childState, childFds,
                   inbuf, outbuf, handles, response, scen, pending,
                   interrupts, exitStatus, outcome, printed, sendResult,
                   connSpawned, calls>>

\* stop_server up to the return of terminate(); terminate() polls first and
\* signals only a child that has not exited
stop_server_terminate ==
    /\ pc = "stop"
    /\ IF client.process = "None"
       THEN /\ trace' = trace \o <<Ev("stop", 0, FALSE), Ev("stop_ret", 0, FALSE)>>
            /\ pc' = AfterStop
            /\ UNCHANGED signals
       ELSE IF childState = "running"
       THEN /\ trace' = trace \o <<Ev("stop", 0, TRUE), Ev("term", 0, TRUE)>>
            /\ signals' = signals + 1
            /\ pc' = "ss_wait"
       ELSE /\ trace' = Append(trace, Ev("stop", 0, TRUE))
            /\ pc' = "ss_wait"
            /\ UNCHANGED signals
    /\ UNCHANGED <<mode, stdoutErrors, envFile, built, env, choice, client, childState, childFds,
                   inbuf, outbuf, handles, response, scen, pending,
                   interrupts, exitStatus, outcome, printed, sendResult, connSpawned,
                   calls>>

\* stop_server from wait() to its return; blocks until the child has exited
stop_server_wait ==
    /\ pc = "ss_wait"
    /\ childState = "exited"
    /\ trace' = Append(trace, Ev("stop_ret", 0, TRUE))
    /\ pc' = AfterStop
    /\ UNCHANGED <<mode, stdoutErrors, envFile, built, env, choice, client, childState, childFds,
                   inbuf, outbuf, signals, handles, response, scen, pending,
                   interrupts, exitStatus, outcome, printed, sendResult, connSpawned,
                   calls>>

\* --------------------------------------- test_basic_functionality
\* lines 127-149: load the .env file again, build server_env, create the
\* client.  An exception of the loader leaves the function.
tbf_setup ==
    /\ pc = "tbf_setup"
    /\ \E r \in {load_env_file(env, envFile)} :
       /\ env' = r.env
       /\ IF r.raised
          THEN /\ pc' = "main_exc"
               /\ UNCHANGED client
          ELSE /\ client' = NewClient(ServerEnv(r.env))
               /\ pc' = "start"
    /\ UNCHANGED <<mode, stdoutErrors, envFile, built, choice, childState, childFds, inbuf, outbuf,
                   signals, handles, response, scen, pending, interrupts,
                   exitStatus, trace, outcome, printed, sendResult, connSpawned, calls>>

\* the code of scenario `scen` that follows its send_request
classify ==
    /\ pc = "classify"
    /\ \E v \in {Classify(scen, response, stdoutErrors)} :
       /\ outcome' = [outcome EXCEPT ![scen] = v.out]
       /\ IF v.raised
          THEN /\ pc' = "except_exc"
               /\ scen' = scen
          ELSE IF scen < 4
          THEN /\ pc' = "send"
               /\ scen' = scen + 1
          ELSE /\ pc' = "stop"
               /\ scen' = scen
    /\ UNCHANGED <<mode, stdoutErrors, envFile, built, env, choice, client, childState, childFds,
                   inbuf, outbuf, signals, handles, response, pending,
                   interrupts, exitStatus, trace, printed, sendResult, connSpawned,
                   calls>>

\* `except KeyboardInterrupt:` of the runner, then its finally clause
except_keyboard_interrupt ==
    /\ pc = "except_ki"
    /\ printed' = printed \cup {"interrupted"}
    /\ pc' = "stop"
    /\ UNCHANGED <<sendResult, mode, stdoutErrors, envFile, built, env, choice, client, childState, childFds,
                   inbuf, outbuf, signals, handles, response, scen, pending,
                   interrupts, exitStatus, trace, outcome, connSpawned,
                   calls>>

\* except_exception that starts the server again after a failure
except_exception_restarts ==
    /\ pc = "except_exc"
    /\ printed' = printed \cup {"test_failed"}
    /\ pc' = "start"
    /\ UNCHANGED <<sendResult, mode, stdoutErrors, envFile, built, env, choice, client, childState, childFds,
                   inbuf, outbuf, signals, handles, response, scen, pending,
                   interrupts, exitStatus, trace, outcome, connSpawned,
                   calls>>

\* `except Exception as e:` of the runner, then its finally clause
except_exception ==
    /\ pc = "except_exc"
    /\ printed' = printed \cup {"test_failed"}
    /\ pc' = "stop"
    /\ UNCHANGED <<sendResult, mode, stdoutErrors, envFile, built, env, choice, client, childState, childFds,
                   inbuf, outbuf, signals, handles, response, scen, pending,
                   interrupts, exitStatus, trace, outcome, connSpawned,
                   calls>>

\* ------------------------------------------------ test_connection_only
\* subprocess.run of the connectivity script: it runs to an exit status,
\* times out, or cannot be launched; every exception is caught here.
test_connection_only ==
    /\ pc = "tco"
    /\ \E r \in {load_env_file(env, envFile)} :
       /\ env' = r.env
       /\ IF r.raised
          THEN /\ pc' = "main_exc"
               /\ UNCHANGED <<connSpawned, exitStatus>>
          ELSE \E result \in ConnResults :
               /\ connSpawned' = (result \in {"passed", "failed", "timeout"})
               /\ pc' = IF choice = "3" THEN "tbf_setup" ELSE "tbf_return"
               /\ UNCHANGED exitStatus
    /\ UNCHANGED <<mode, stdoutErrors, envFile, built, choice, client, childState, childFds, inbuf,
                   outbuf, signals, handles, response, scen, pending,
                   interrupts, trace, outcome, printed, sendResult, calls>>

\* ----------------------------------------------------------------- main
\* lines 271-274
main_check_built ==
    /\ pc = "main"
    /\ IF built
       THEN /\ pc' = "main_load"
            /\ UNCHANGED <<printed, exitStatus>>
       ELSE /\ printed' = printed \cup {"not_built"}
            /\ pc' = "exited"
            /\ exitStatus' = 1
    /\ UNCHANGED <<sendResult, mode, stdoutErrors, envFile, built, env, choice, client, childState, childFds,
                   inbuf, outbuf, signals, handles, response, scen, pending,
                   interrupts, trace, outcome, connSpawned, calls>>

\* line 277; an exception of the loader is not caught (traceback, status 1)
main_load_env ==
    /\ pc = "main_load"
    /\ \E r \in {load_env_file(env, envFile)} :
       /\ env' = r.env
       /\ IF r.raised
          THEN /\ pc' = "exited"
               /\ exitStatus' = 1
          ELSE /\ pc' = "main_check"
               /\ UNCHANGED exitStatus
    /\ UNCHANGED <<mode, stdoutErrors, envFile, built, choice, client, childState, childFds, inbuf,
                   outbuf, signals, handles, response, scen, pending,
                   interrupts, trace, outcome, printed, sendResult, connSpawned, calls>>

\* main_check_vars testing `var not in os.environ` instead of
\* `not os.getenv(var)`: a variable set to the empty string passes
main_check_vars_unset_only ==
    /\ pc = "main_check"
    /\ IF RequiredVars \ DOMAIN env # {}
       THEN /\ printed' = printed \cup {"missing_vars"}
            /\ pc' = "exited"
            /\ exitStatus' = 1
       ELSE /\ pc' = "menu"
            /\ UNCHANGED <<printed, exitStatus>>
    /\ UNCHANGED <<mode, stdoutErrors, envFile, built, env, choice, client, childState, childFds,
                   inbuf, outbuf, signals, handles, response, scen, pending,
                   interrupts, trace, outcome, sendResult, connSpawned,
                   calls>>

\* lines 280-286
main_check_vars ==
    /\ pc = "main_check"
    /\ IF MissingVars(env) # {}
       THEN /\ printed' = printed \cup {"missing_vars"}
            /\ pc' = "exited"
            /\ exitStatus' = 1
       ELSE /\ pc' = "menu"
            /\ UNCHANGED <<printed, exitStatus>>
    /\ UNCHANGED <<sendResult, mode, stdoutErrors, envFile, built, env, choice, client, childState, childFds,
                   inbuf, outbuf, signals, handles, response, scen, pending,
                   interrupts, trace, outcome, connSpawned, calls>>

\* lines 289-292: the menu is printed, before the try statement
main_banner ==
    /\ pc = "menu"
    /\ pc' = "input"
    /\ UNCHANGED <<mode, stdoutErrors, envFile, built, env, choice, client, childState,
                   childFds, inbuf, outbuf, signals, handles, response, scen,
                   pending, interrupts, exitStatus, trace, outcome, printed, sendResult,
                   connSpawned, calls>>

\* lines 294-307: input() and the dispatch; "EOF" is input() raising
\* EOFError, any other answer is sys.exit(1)
main_menu ==
    /\ pc = "input"
    /\ \E c \in MenuInputs :
       /\ choice' = c
       /\ CASE c = "1" -> /\ pc' = "tbf_setup"
                          /\ UNCHANGED <<printed, exitStatus>>
            [] c \in {"2", "3"} -> /\ pc' = "tco"
                                   /\ UNCHANGED <<printed, exitStatus>>
            [] c = "EOF" -> /\ pc' = "main_exc"
                            /\ UNCHANGED <<printed, exitStatus>>
            [] OTHER -> /\ printed' = printed \cup {"invalid_choice"}
                        /\ pc' = "exited"
                        /\ exitStatus' = 1
    /\ UNCHANGED <<sendResult, mode, stdoutErrors, envFile, built, env, client, childState, childFds, inbuf,
                   outbuf, signals, handles, response, scen, pending,
                   interrupts, trace, outcome, connSpawned, calls>>

\* the selected tests returned: main returns, status 0
main_return ==
    /\ pc = "tbf_return"
    /\ pc' = "exited"
    /\ exitStatus' = 0
    /\ UNCHANGED <<mode, stdoutErrors, envFile, built, env, choice, client, childState, childFds,
                   inbuf, outbuf, signals, handles, response, scen, pending,
                   interrupts, trace, outcome, printed, sendResult, connSpawned, calls>>

\* `except KeyboardInterrupt:` of main (lines 309-310)
main_except_keyboard_interrupt ==
    /\ pc = "main_ki"
    /\ printed' = printed \cup {"cancelled"}
    /\ pc' = "exited"
    /\ exitStatus' = 0
    /\ UNCHANGED <<sendResult, mode, stdoutErrors, envFile, built, env, choice, client, childState, childFds,
                   inbuf, outbuf, signals, handles, response, scen, pending,
                   interrupts, trace, outcome, connSpawned, calls>>

\* `except Exception as e:` of main (lines 311-312)
main_except_exception ==
    /\ pc = "main_exc"
    /\ printed' = printed \cup {"testing_failed"}
    /\ pc' = "exited"
    /\ exitStatus' = 0
    /\ UNCHANGED <<sendResult, mode, stdoutErrors, envFile, built, env, choice, client, childState, childFds,
                   inbuf, outbuf, signals, handles, response, scen, pending,
                   interrupts, trace, outcome, connSpawned, calls>>

\* ------------------------------------------------ operator interrupt
\* KeyboardInterrupt is raised at the statement the script is executing,
\* before the statement has done anything or between two of its effects.
StartupPcs == {"main", "main_load", "main_check", "menu"}
MainTryPcs == {"input", "tco", "tbf_setup", "tbf_return"}
RunnerTryPcs == {"start", "send", "sr_read", "classify"}
HandlerPcs == {"except_ki", "except_exc"}

\* the message that the statements at pc print before they raise, exit
\* or return, if they print one
Prints ==
    CASE pc = "main" /\ ~built -> {"not_built"}
      [] pc = "main_check" /\ MissingVars(env) # {} -> {"missing_vars"}
      [] pc = "except_ki" -> {"interrupted"}
      [] pc = "except_exc" -> {"test_failed"}
      [] pc = "main_ki" -> {"cancelled"}
      [] pc = "main_exc" -> {"testing_failed"}
      [] OTHER -> {}

\* os.environ when load_env_file is interrupted: the loop has dealt with
\* some of the lines of the file
PartialLoads(e, file) ==
    IF file.exists
    THEN {LoadLines(e, SubSeq(file.lines, 1, n)).env :
              n \in 0..Len(file.lines)}
    ELSE {e}

\* before main's try statement: uncaught, the interpreter dies of SIGINT;
\* what the interrupted statement had printed or loaded stays
interrupt_startup ==
    /\ mode = "main" /\ interrupts < MaxInterrupts
    /\ pc \in StartupPcs
    /\ printed' \in {printed, printed \cup Prints}
    /\ env' \in (IF pc = "main_load" THEN PartialLoads(env, envFile)
                 ELSE {env})
    /\ interrupts' = interrupts + 1
    /\ pc' = "exited"
    /\ exitStatus' = 130
    /\ UNCHANGED <<mode, stdoutErrors, envFile, built, choice, client, childState, childFds,
                   inbuf, outbuf, signals, handles, response, scen, pending,
                   trace, outcome, sendResult, connSpawned, calls>>

\* inside main's try but outside the runner's: caught by main.  At the
\* prompt the interrupt arrives while input() waits, or after it has
\* returned an answer: an answer that is no choice may have been reported
\* already (line 306), sys.exit not yet called
interrupt_main ==
    /\ mode = "main" /\ interrupts < MaxInterrupts
    /\ pc \in MainTryPcs
    /\ IF pc = "input"
       THEN \E c \in {choice} \cup (MenuInputs \ {"EOF"}) :
              /\ choice' = c
              /\ printed' \in IF c \in {choice, "1", "2", "3"}
                              THEN {printed}
                              ELSE {printed, printed \cup {"invalid_choice"}}
       ELSE UNCHANGED <<choice, printed>>
    /\ interrupts' = interrupts + 1
    /\ pc' = "main_ki"
    /\ UNCHANGED <<mode, stdoutErrors, envFile, built, env, client, childState, childFds,
                   inbuf, outbuf, signals, handles, response, scen, pending,
                   exitStatus, trace, outcome, sendResult, connSpawned, calls>>

\* outside main's try block once it has been entered: in one of main's
\* except clauses (before or after its message), after the try statement,
\* or while the interpreter shuts down (after main has returned, or after
\* sys.exit(1) at line 307 for an answer that is no choice, with the
\* handler of SIGINT back to the default); uncaught as at startup
interrupt_main_handler ==
    /\ mode = "main" /\ interrupts < MaxInterrupts
    /\ \/ /\ pc \in {"main_ki", "main_exc", "tbf_return"}
          /\ printed' \in {printed, printed \cup Prints}
          /\ UNCHANGED choice
       \/ /\ pc = "input"
          /\ choice' \in MenuInputs \ {"1", "2", "3", "EOF"}
          /\ printed' = printed \cup {"invalid_choice"}
    /\ interrupts' = interrupts + 1
    /\ pc' = "exited"
    /\ exitStatus' = 130
    /\ UNCHANGED <<mode, stdoutErrors, envFile, built, env, client, childState,
                   childFds, inbuf, outbuf, signals, handles, response, scen,
                   pending, trace, outcome, sendResult, connSpawned, calls>>

\* while subprocess.run waits for the connectivity script it has spawned:
\* the script is killed and the interrupt is caught by main
interrupt_subprocess_run ==
    /\ mode = "main" /\ interrupts < MaxInterrupts
    /\ pc = "tco"
    /\ \E r \in {load_env_file(env, envFile)} :
       /\ ~r.raised
       /\ env' = r.env
    /\ connSpawned' = TRUE
    /\ interrupts' = interrupts + 1
    /\ pc' = "main_ki"
    /\ UNCHANGED <<mode, stdoutErrors, envFile, built, choice, client, childState,
                   childFds, inbuf, outbuf, signals, handles, response, scen,
                   pending, exitStatus, trace, outcome, printed, sendResult,
                   calls>>

\* inside Popen, after the child has been created and before the Popen
\* object is assigned to self.process: Popen closes its ends of the pipes
\* and the interrupt is caught by the runner; the child runs on and the
\* client does not know it
interrupt_popen ==
    /\ mode = "main" /\ interrupts < MaxInterrupts
    /\ pc = "start"
    /\ childState' = "running"
    /\ childFds' = ChildEnds
    /\ inbuf' = <<>>
    /\ outbuf' = <<>>
    /\ handles' = {}
    /\ trace' = Append(trace, Ev("fork", 0, TRUE))
    /\ interrupts' = interrupts + 1
    /\ pc' = "except_ki"
    /\ UNCHANGED <<mode, stdoutErrors, envFile, built, env, choice, client, signals,
                   response, scen, pending, exitStatus, outcome, printed,
                   sendResult, connSpawned, calls>>

\* inside the runner's try block: caught by the runner.  In send_request
\* after readline() has returned, the line (or the end of file) has been
\* consumed and send_request returns nothing; in the code of a scenario,
\* its marker may have been printed already
interrupt_try ==
    /\ mode = "main" /\ interrupts < MaxInterrupts
    /\ pc \in RunnerTryPcs
    /\ \/ UNCHANGED <<outbuf, trace, outcome>>
       \/ /\ pc = "sr_read" /\ outbuf # <<>>
          /\ outbuf' = Tail(outbuf)
          /\ trace' = Append(trace, Ev("read", scen, TRUE))
          /\ UNCHANGED outcome
       \/ /\ pc = "sr_read" /\ outbuf = <<>> /\ "stdout" \notin childFds
          /\ trace' = Append(trace, Ev("read", scen, FALSE))
          /\ UNCHANGED <<outbuf, outcome>>
       \/ /\ pc = "classify"
          /\ \E v \in {Classify(scen, response, stdoutErrors)} :
             /\ v.out # "crash"
             /\ outcome' = [outcome EXCEPT ![scen] = v.out]
          /\ UNCHANGED <<outbuf, trace>>
    /\ interrupts' = interrupts + 1
    /\ pc' = "except_ki"
    /\ UNCHANGED <<mode, stdoutErrors, envFile, built, env, choice, client, childState, childFds,
                   inbuf, signals, handles, response, scen, pending,
                   exitStatus, printed, sendResult, connSpawned, calls>>

\* inside one of the runner's except clauses, before or after its
\* message: the finally clause still runs, then the interrupt propagates
\* to main
interrupt_handler ==
    /\ mode = "main" /\ interrupts < MaxInterrupts
    /\ pc \in HandlerPcs
    /\ printed' \in {printed, printed \cup Prints}
    /\ interrupts' = interrupts + 1
    /\ pending' = TRUE
    /\ pc' = "stop"
    /\ UNCHANGED <<mode, stdoutErrors, envFile, built, env, choice, client, childState, childFds,
                   inbuf, outbuf, signals, handles, response, scen,
                   exitStatus, trace, outcome, sendResult, connSpawned, calls>>

\* inside the finally clause before terminate(): either before the call
\* of stop_server (line 230) or inside it before line 121; nothing is
\* sent to the child and the interrupt propagates to main
interrupt_finally ==
    /\ mode = "main" /\ interrupts < MaxInterrupts
    /\ pc = "stop"
    /\ \/ trace' = trace
       \/ trace' = Append(trace, Ev("stop", 0, client.process # "None"))
    /\ interrupts' = interrupts + 1
    /\ pc' = "main_ki"
    /\ UNCHANGED <<mode, stdoutErrors, envFile, built, env, choice, client, childState,
                   childFds, inbuf, outbuf, signals, handles, response, scen,
                   pending, exitStatus, outcome, printed, sendResult, connSpawned, calls>>

\* inside stop_server's wait(): stop_server is abandoned, the interrupt
\* propagates to main
interrupt_wait ==
    /\ mode = "main" /\ interrupts < MaxInterrupts
    /\ pc = "ss_wait"
    /\ interrupts' = interrupts + 1
    /\ pc' = "main_ki"
    /\ UNCHANGED <<mode, stdoutErrors, envFile, built, env, choice, client, childState, childFds,
                   inbuf, outbuf, signals, handles, response, scen, pending,
                   exitStatus, trace, outcome, printed, sendResult, connSpawned, calls>>

\* ------------------------------------------------- the child process
\* The server is arbitrary: it may answer a request with any line, print
\* a line nobody asked for, close its stdin or its stdout, or exit at any
\* moment (of its own accord or because of a signal).  It may have
\* started processes of its own, which inherit its ends of the pipes: its
\* exit then closes nothing, and the ends stay open until their holder
\* closes them, and a holder of the stdout end may print to it.
child_answer ==
    /\ "stdout" \in childFds /\ "stdout" \in handles
    /\ inbuf # <<>>
    /\ Len(outbuf) < MaxOut
    /\ outbuf' = Append(outbuf, OutLine(ScenOf(Head(inbuf))))
    /\ inbuf' = Tail(inbuf)
    /\ UNCHANGED <<mode, stdoutErrors, envFile, built, pc, env, choice, client, childState, childFds,
                   signals, handles, response, scen, pending, interrupts,
                   exitStatus, trace, outcome, printed, sendResult, connSpawned, calls>>

child_print ==
    /\ "stdout" \in childFds /\ "stdout" \in handles
    /\ Len(outbuf) < MaxOut
    /\ outbuf' = Append(outbuf, OutLine(0))
    /\ UNCHANGED <<mode, stdoutErrors, envFile, built, pc, env, choice, client, childState, childFds,
                   inbuf, signals, handles, response, scen, pending,
                   interrupts, exitStatus, trace, outcome, printed, sendResult,
                   connSpawned, calls>>

\* the last holder of the stdin end closes it (the running server, or a
\* descendant that outlives it): what had not been read is lost, and a
\* write to the pipe fails from now on
child_close_stdin ==
    /\ "stdin" \in childFds
    /\ childFds' = childFds \ {"stdin"}
    /\ inbuf' = <<>>
    /\ UNCHANGED <<mode, stdoutErrors, envFile, built, pc, env, choice, client, childState,
                   outbuf, signals, handles, response, scen, pending,
                   interrupts, exitStatus, trace, outcome, printed,
                   sendResult, connSpawned, calls>>

\* the last holder of the stdout end closes it: the lines printed so far
\* can still be read, then the reader is at end of file
child_close_stdout ==
    /\ "stdout" \in childFds
    /\ childFds' = childFds \ {"stdout"}
    /\ UNCHANGED <<mode, stdoutErrors, envFile, built, pc, env, choice, client, childState,
                   inbuf, outbuf, signals, handles, response, scen, pending,
                   interrupts, exitStatus, trace, outcome, printed,
                   sendResult, connSpawned, calls>>

\* the server process ends.  Its ends of the pipes close with it, unless
\* a process it has started holds them too: they then stay open
child_exit ==
    /\ childState = "running"
    /\ childState' = "exited"
    /\ \/ /\ childFds' = {}
          /\ inbuf' = <<>>
       \/ /\ childFds # {}
          /\ UNCHANGED <<childFds, inbuf>>
    /\ UNCHANGED <<mode, stdoutErrors, envFile, built, pc, env, choice, client, outbuf,
                   signals, handles, response, scen, pending, interrupts,
                   exitStatus, trace, outcome, printed, sendResult, connSpawned, calls>>

Next ==
    \/ main_check_built
    \/ main_load_env
    \/ main_check_vars
    \/ main_banner
    \/ main_menu
    \/ test_connection_only
    \/ tbf_setup
    \/ start_server
    \/ send_request_write
    \/ send_request_read
    \/ classify
    \/ except_keyboard_interrupt
    \/ except_exception
    \/ stop_server_terminate
    \/ stop_server_wait
    \/ main_return
    \/ main_except_keyboard_interrupt
    \/ main_except_exception
    \/ interrupt_startup
    \/ interrupt_main
    \/ interrupt_main_handler
    \/ interrupt_subprocess_run
    \/ interrupt_popen
    \/ interrupt_try
    \/ interrupt_handler
    \/ interrupt_finally
    \/ interrupt_wait
    \/ child_answer
    \/ child_print
    \/ child_close_stdin
    \/ child_close_stdout
    \/ child_exit

Spec == Init /\ [][Next]_vars

\* ------------------------------------------- an orderly server
\* The script against a server that prints exactly one line for every
\* request, in receipt order, prints nothing else, and exits only when it
\* has been sent the termination signal.  The signal ends the server
\* process; the ends of the pipes that a process it has started holds
\* stay open, as in child_exit.
child_exit_on_signal ==
    /\ childState = "running"
    /\ signals > 0
    /\ childState' = "exited"
    /\ \/ /\ childFds' = {}
          /\ inbuf' = <<>>
       \/ /\ childFds # {}
          /\ UNCHANGED <<childFds, inbuf>>
    /\ UNCHANGED <<mode, stdoutErrors, envFile, built, pc, env, choice, client, outbuf,
                   signals, handles, response, scen, pending, interrupts,
                   exitStatus, trace, outcome, printed, sendResult,
                   connSpawned, calls>>

NextOrderly ==
    \/ main_check_built
    \/ main_load_env
    \/ main_check_vars
    \/ main_banner
    \/ main_menu
    \/ test_connection_only
    \/ tbf_setup
    \/ start_server
    \/ send_request_write
    \/ send_request_read
    \/ classify
    \/ except_keyboard_interrupt
    \/ except_exception
    \/ stop_server_terminate
    \/ stop_server_wait
    \/ main_return
    \/ main_except_keyboard_interrupt
    \/ main_except_exception
    \/ interrupt_startup
    \/ interrupt_main
    \/ interrupt_main_handler
    \/ interrupt_subprocess_run
    \/ interrupt_popen
    \/ interrupt_try
    \/ interrupt_handler
    \/ interrupt_finally
    \/ interrupt_wait
    \/ child_answer
    \/ child_exit_on_signal

OrderlySpec == Init /\ [][NextOrderly]_vars

\* ------------------------------------------------------- fairness
\* the steps of the script itself: the interpreter keeps executing the
\* statement it is at whenever that statement can proceed.  input() at
\* line 295 is not one of them: it returns when the operator answers,
\* which nothing obliges the operator to do.
Script ==
    \/ main_check_built
    \/ main_load_env
    \/ main_check_vars
    \/ main_banner
    \/ test_connection_only
    \/ tbf_setup
    \/ start_server
    \/ send_request_write
    \/ send_request_read
    \/ classify
    \/ except_keyboard_interrupt
    \/ except_exception
    \/ stop_server_terminate
    \/ stop_server_wait
    \/ main_return
    \/ main_except_keyboard_interrupt
    \/ main_except_exception

\* the script never stops of its own accord between two statements
FairScript == Init /\ [][Next]_vars /\ WF_vars(Script)

\* the child deals with a request it has received: it prints a line or
\* its output closes (it closes it, or exits with no other holder)
child_responds ==
    /\ inbuf # <<>>
    /\ child_answer \/ child_close_stdout \/ (child_exit /\ childFds' = {})

\* FairScript with a child that deals with every request written to it and
\* exits when it has been sent the termination signal
FairSpec ==
    /\ Init /\ [][Next]_vars
    /\ WF_vars(Script)
    /\ WF_vars(child_responds)
    /\ WF_vars(child_exit_on_signal)

\* ---------------------------------------- the client driven directly
\* One MCPTestClient whose methods are called in any order by a caller
\* other than the scenario runner: start_server may be called again on a
\* started or stopped client.
InitClient ==
    /\ mode = "driver"
    /\ stdoutErrors = "strict"
    /\ envFile = NoFile
    /\ built = TRUE
    /\ pc = "idle"
    /\ env = EnvFull
    /\ choice = ""
    /\ client = NewClient(ServerEnv(EnvFull))
    /\ childState = "none"
    /\ childFds = {}
    /\ inbuf = <<>>
    /\ outbuf = <<>>
    /\ signals = 0
    /\ handles = {}
    /\ response = PyNone
    /\ scen = 1
    /\ pending = FALSE
    /\ interrupts = 0
    /\ exitStatus = -1
    /\ trace = <<>>
    /\ outcome = [k \in Scenarios |-> "none"]
    /\ printed = {}
    /\ sendResult = "none"
    /\ connSpawned = FALSE
    /\ calls = 0

driver_start ==
    /\ mode = "driver" /\ pc = "idle" /\ calls < MaxCalls
    /\ calls' = calls + 1
    /\ pc' = "start"
    /\ UNCHANGED <<mode, stdoutErrors, envFile, built, env, choice, client, childState, childFds,
                   inbuf, outbuf, signals, handles, response, scen, pending,
                   interrupts, exitStatus, trace, outcome, printed, sendResult,
                   connSpawned>>

driver_send ==
    /\ mode = "driver" /\ pc = "idle" /\ calls < MaxCalls
    /\ calls' = calls + 1
    /\ scen' \in Scenarios
    /\ pc' = "send"
    /\ UNCHANGED <<mode, stdoutErrors, envFile, built, env, choice, client, childState, childFds,
                   inbuf, outbuf, signals, handles, response, pending,
                   interrupts, exitStatus, trace, outcome, printed, sendResult,
                   connSpawned>>

driver_stop ==
    /\ mode = "driver" /\ pc = "idle" /\ calls < MaxCalls
    /\ calls' = calls + 1
    /\ pc' = "stop"
    /\ UNCHANGED <<mode, stdoutErrors, envFile, built, env, choice, client, childState, childFds,
                   inbuf, outbuf, signals, handles, response, scen, pending,
                   interrupts, exitStatus, trace, outcome, printed, sendResult,
                   connSpawned>>

NextClient ==
    \/ driver_start
    \/ driver_send
    \/ driver_stop
    \/ start_server
    \/ send_request_write
    \/ send_request_read
    \/ stop_server_terminate
    \/ stop_server_wait
    \/ child_answer
    \/ child_print
    \/ child_close_stdin
    \/ child_close_stdout
    \/ child_exit

ClientSpec == InitClient /\ [][NextClient]_vars

\* ------------------------------------------- the loader on its own
\* load_env_file applied once to an environment and a .env file drawn from
\* bounded sets.  The first line of the file is KEY=VALUE with every value
\* of at most MaxValueLen tokens (or a line that is not KEY=VALUE); the
\* lines that follow it come from a few fixed continuations.
ValueTokens == {Blank, Tab, DQuote, SQuote, Equals, "v"}
Values == UNION {[1..n -> ValueTokens] : n \in 0..MaxValueLen}
KeyParts == {<<"K">>, <<Tab, "K", Blank>>, <<"NDB_BASE_URL">>,
             <<"NDB_PASSWORD">>, <<>>}
GenLines ==
    {k \o <<Equals>> \o v : k \in KeyParts, v \in Values}
        \cup {<<>>, <<Blank>>, <<Hash, "K", Equals, "v">>,
              <<"K", Blank, "v">>}
Tails == {<<>>,
          << <<"K", Equals, "w">> >>,
          << <<Blank>>, <<"K", Equals, SQuote, "w", SQuote>>,
             <<"NDB_BASE_URL", Equals, "w">> >>}
LoaderFiles == {File(<<l>> \o t) : l \in GenLines, t \in Tails} \cup {NoFile}
LoaderEnvs == {NoEnv, EnvUrl, EnvPartial}

InitLoader ==
    /\ mode = "loader"
    /\ stdoutErrors = "strict"
    /\ envFile \in LoaderFiles
    /\ env \in LoaderEnvs
    /\ built = TRUE
    /\ pc = "load"
    /\ choice = ""
    /\ client = NoClient
    /\ childState = "none"
    /\ childFds = {}
    /\ inbuf = <<>>
    /\ outbuf = <<>>
    /\ signals = 0
    /\ handles = {}
    /\ response = PyNone
    /\ scen = 1
    /\ pending = FALSE
    /\ interrupts = 0
    /\ exitStatus = -1
    /\ trace = <<>>
    /\ outcome = [k \in Scenarios |-> "none"]
    /\ printed = {}
    /\ sendResult = "none"
    /\ connSpawned = FALSE
    /\ calls = 0

\* one call of load_env_file(); it returns or raises
loader_run ==
    /\ mode = "loader" /\ pc = "load"
    /\ \E r \in {load_env_file(env, envFile)} :
       /\ env' = r.env
       /\ pc' = IF r.raised THEN "load_raised" ELSE "loaded"
    /\ UNCHANGED <<mode, stdoutErrors, envFile, built, choice, client, childState, childFds, inbuf,
                   outbuf, signals, handles, response, scen, pending,
                   interrupts, exitStatus, trace, outcome, printed,
                   sendResult, connSpawned, calls>>

NextLoader == loader_run

LoaderSpec == InitLoader /\ [][NextLoader]_vars

\* the lines of the file as the loop sees them after line.strip()
FileLines == [i \in 1..Len(envFile.lines) |-> PyStrip(envFile.lines[i])]

\* line i is a KEY=VALUE line with a key that is not set when the loop
\* reaches it: not set in e and not the key of an earlier KEY=VALUE line
FirstFor(e, i) ==
    /\ WellFormed(FileLines[i])
    /\ LineKey(FileLines[i]) # ""
    /\ LineKey(FileLines[i]) \notin DOMAIN e
    /\ \A j \in 1..(i - 1) :
          WellFormed(FileLines[j])
              => LineKey(FileLines[j]) # LineKey(FileLines[i])

\* ------------------------------------------------ reading the history
\* number of events of kind e for scenario k in the history t
CountEv(t, e, k) ==
    Cardinality({i \in 1..Len(t) : t[i].e = e /\ t[i].k = k})

StopCalls == CountEv(trace, "stop", 0)
Writes(k) == CountEv(trace, "write", k)
Reads(k) == CountEv(trace, "read", k)
WriteFailed(k) == \E i \in 1..Len(trace) : trace[i] = Ev("write", k, FALSE)
NoData(k) == \E i \in 1..Len(trace) : trace[i] = Ev("read", k, FALSE)
ServerStarted == \E i \in 1..Len(trace) : trace[i] = Ev("spawn", 0, TRUE)
StartFailed == \E i \in 1..Len(trace) : trace[i] = Ev("spawn", 0, FALSE)
StopReturned == \E i \in 1..Len(trace) : trace[i] = Ev("stop_ret", 0, TRUE)
IsWrite(ev) == ev.e = "write"
\* scenarios of the write attempts, in the order they were made
WriteOrder ==
    LET w == SelectSeq(trace, IsWrite) IN [i \in 1..Len(w) |-> w[i].k]

\* test_basic_functionality was entered (its client exists) and control
\* has left it, by return or by a propagating interrupt
RunnerReturned ==
    /\ mode = "main"
    /\ client.exists
    /\ pc \in {"tbf_return", "main_ki", "exited"}

\* --------------------------------------------------------------- claims

\* C1: in every run of the scenario runner, whatever happens between the
\* creation of the client and the moment the runner is left (all scenarios
\* done, an exception of start_server or of a scenario, an interrupt),
\* stop_server has been invoked exactly once: never skipped, never twice.
Claim_C1 ==
    /\ StopCalls <= 1
    /\ RunnerReturned => StopCalls = 1

\* C2 as stated: every scenario whose send_request has returned made
\* exactly one write followed by exactly one read, whatever the server
\* does, a failing write included.
Orig_C2 ==
    pc = "classify" =>
        \A k \in 1..scen : Writes(k) = 1 /\ Reads(k) = 1

\* C2 (amended): every scenario whose send_request has returned made
\* exactly one write attempt, followed by exactly one read when the write
\* succeeded and by no read when it failed on a broken pipe; a read always
\* directly follows the successful write of its own scenario, and nothing
\* is written between a successful write and its read, so no later write
\* is issued before the earlier exchange is over.
Thm_C2 ==
    LET n == Len(trace) IN
    /\ pc = "classify" =>
         /\ WriteOrder = [k \in 1..scen |-> k]
         /\ \A k \in 1..scen : Reads(k) = IF WriteFailed(k) THEN 0 ELSE 1
         /\ trace[n] \in {Ev("write", scen, FALSE), Ev("read", scen, TRUE),
                          Ev("read", scen, FALSE)}
    /\ \A i \in 1..n :
          /\ trace[i].e = "read" =>
                (i > 1 /\ trace[i - 1] = Ev("write", trace[i].k, TRUE))
          /\ (trace[i].e = "write" /\ trace[i].ok /\ i < n) =>
                trace[i + 1].e \in {"read", "stop"}
          /\ trace[i].e = "write" =>
                \A j \in 1..(i - 1) :
                    trace[j].e = "write" => trace[j].k < trace[i].k

\* all four exchanges are over, one of them with a write that failed on
\* a broken pipe and one with a write followed by its read
Wit_C2 ==
    /\ pc = "classify" /\ scen = 4
    /\ WriteFailed(4)
    /\ Writes(1) = 1 /\ Reads(1) = 1

\* C3: once the server has started, the four scenarios issue their
\* requests in the order 1, 2, 3, 4 however the earlier ones ended
\* (unexpected result shape, error object, undecodable text, non-mapping
\* value, no data): a run that nobody interrupts and that has left the
\* runner has attempted all four writes.
Claim_C3 ==
    (RunnerReturned /\ ServerStarted /\ interrupts = 0)
        => WriteOrder = <<1, 2, 3, 4>>

\* C4: when stop_server has returned after a successful start_server, the
\* child has exited and the handles to its stdin, stdout and stderr have
\* all been released.
Claim_C4 ==
    StopReturned => (childState = "exited" /\ handles = {})

\* C5: when start_server cannot launch the child, the failure is reported,
\* no scenario request is written and the script exits with a non-zero
\* status.
Claim_C5 ==
    (StartFailed /\ pc = "exited") =>
        /\ "test_failed" \in printed
        /\ WriteOrder = <<>>
        /\ exitStatus # 0

\* the state of the client and of the child that stop_server acts on
StopState == <<client, childState, childFds, inbuf, outbuf, signals, handles>>

\* a stop_server call is running and the call completed just before it was
\* a stop_server call too
InSecondStop ==
    \/ /\ pc = "stop"
       /\ trace # <<>>
       /\ trace[Len(trace)].e = "stop_ret"
    \/ /\ pc = "ss_wait"
       /\ Len(trace) >= 2
       /\ trace[Len(trace)].e = "stop"
       /\ trace[Len(trace) - 1].e = "stop_ret"
    /\ trace[Len(trace) - 2] = Ev("stop_ret", 0, TRUE)

\* C7: send_request on a client that was never started returns the
\* not-started outcome and has no side effect: nothing is written or read,
\* no process is spawned, the client is unchanged.
Thm_C7 ==
    [][(pc = "send" /\ client.process = "None") =>
          /\ pc' = AfterSend
          /\ response' = PyNone
          /\ sendResult' = "not_started"
          /\ UNCHANGED <<client, childState, childFds, inbuf, outbuf, signals,
                         handles, trace>>]_vars

\* a send_request on the never-started client has returned
Wit_C7 ==
    /\ pc = "idle"
    /\ client.process = "None"
    /\ sendResult = "not_started"
    /\ trace = <<>>

\* C8: when the child has exited without output for a request, the read
\* of send_request finds no data and the scenario that issued the request
\* is marked failed, in each of the four scenarios.
Claim_C8 ==
    \A k \in Scenarios :
        (NoData(k) /\ outcome[k] # "none") => outcome[k] = "fail"

\* the response carries an error object
CarriesError(r) ==
    /\ r.t = "dict"
    /\ Codes("error") \in DOMAIN r.v
    /\ r.v[Codes("error")].t = "dict"

\* C9: scenario 4 is classified as successful error handling when the
\* response carries an error object and as a failure when it carries
\* none (a result, no response, a decode or transport failure).
Claim_C9 ==
    outcome[4] # "none" =>
        IF CarriesError(response) THEN outcome[4] = "pass"
        ELSE outcome[4] = "fail"

\* some process was spawned: the server or the connectivity check
AnySpawn == ServerStarted \/ connSpawned \/ childState # "none"

\* C10: when one of the three required variables is missing after the
\* .env file has been loaded, the script exits with a non-zero status and
\* no child process (server or connectivity check) was ever spawned.
Thm_C10 ==
    (pc \notin {"main", "main_load"} /\ MissingVars(env) # {}) =>
        /\ pc \in {"main_check", "exited"}
        /\ pc = "exited" => exitStatus \notin {0, -1}
        /\ ~AnySpawn

\* the file was loaded, a required variable is still missing (here an
\* empty password of the environment that the file may not override), and
\* the script has exited with status 1
Wit_C10 ==
    /\ pc = "exited"
    /\ envFile.exists
    /\ "NDB_PASSWORD" \in MissingVars(env)
    /\ "missing_vars" \in printed
    /\ exitStatus = 1

\* the menu answers that select a test
ValidChoices == {"1", "2", "3"}

\* C11: the script exits with a non-zero status exactly when the built
\* server is missing, a required variable is missing, or the answer given
\* at the menu is not one of the valid choices; in every other execution
\* (the selected run completed whatever its scenarios printed, or the
\* operator interrupted it) the exit status is 0.
Claim_C11 ==
    pc = "exited" =>
        (exitStatus # 0 <=>
            \/ ~built
            \/ MissingVars(env) # {}
            \/ choice \notin ValidChoices \cup {"", "EOF"})

\* the latest event of the history
LastEv == IF trace = <<>> THEN Ev("none", 0, FALSE) ELSE trace[Len(trace)]

\* the failure paths of send_request once the process is attached
SendFailures == {"no_response", "decode_error", "transport_error"}

\* what a caller would receive if the two error outcomes were reported as
\* errors of their own kind
DecodeError == [t |-> "error", v |-> "decode"]
TransportError == [t |-> "error", v |-> "transport"]

\* C12 as stated: what send_request hands to its caller tells the three
\* failures apart: the no-response outcome is a plain return that is not
\* an error, undecodable text arrives as DecodeError and a broken pipe as
\* TransportError.
Orig_C12 ==
    pc = "classify" =>
        /\ sendResult = "no_response" => response = PyNone
        /\ sendResult = "decode_error" => response = DecodeError
        /\ sendResult = "transport_error" => response = TransportError

\* C12 (amended): send_request hands its caller one failure outcome, not
\* three.  Whenever it returns after a read that found the stream closed
\* with nothing pending, after a line that does not decode, or after a
\* write that failed on a broken pipe, it returns None: the same value in
\* the three cases, whichever of them occurred, so the caller cannot tell
\* them apart.
Thm_C12 ==
    pc = "classify" =>
        /\ sendResult \in SendFailures \cup {"value"}
        /\ sendResult = "no_response" <=> LastEv = Ev("read", scen, FALSE)
        /\ sendResult = "transport_error"
              <=> LastEv = Ev("write", scen, FALSE)
        /\ sendResult \in {"decode_error", "value"}
              <=> LastEv = Ev("read", scen, TRUE)
        /\ sendResult \in SendFailures => response = PyNone

\* failures of several kinds in one run, each handing None to its
\* scenario: scenario 1 read a line and was marked failed, scenario 2 found
\* no data, scenario 3 has just met a broken pipe
Wit_C12 ==
    /\ pc = "classify" /\ scen = 3
    /\ sendResult = "transport_error" /\ response = PyNone
    /\ NoData(2)
    /\ outcome[1] = "fail" /\ outcome[2] = "fail"
    /\ \E i \in 1..Len(trace) : trace[i] = Ev("read", 1, TRUE)

\* C13: load_env_file never changes a variable that was set before the
\* call: whatever the file holds, and whether the call returns or raises,
\* every key of the environment before the call has the same value after.
Thm_C13 ==
    [][pc = "load" =>
          \A k \in DOMAIN env : k \in DOMAIN env' /\ env'[k] = env[k]]_vars

\* the load returned on a file whose first line assigns another value to
\* NDB_PASSWORD, which the environment held as the empty string, and on to
\* NDB_BASE_URL further down; both keep the value of the environment
Wit_C13 ==
    /\ pc = "loaded"
    /\ Len(FileLines) = 4
    /\ WellFormed(FileLines[1])
    /\ LineKey(FileLines[1]) = "NDB_PASSWORD"
    /\ LineValue(FileLines[1]) = "v"
    /\ env["NDB_PASSWORD"] = ""
    /\ LineKey(FileLines[4]) = "NDB_BASE_URL"
    /\ env["NDB_BASE_URL"] = "https://ndb"

\* C14: for every KEY=VALUE line whose key is not set when the loop reaches
\* it, a load that returns leaves the key set to the trimmed value with one
\* layer of surrounding quotes removed when the value is enclosed in a
\* matching pair of quotes (both single or both double), and to the trimmed
\* value unchanged otherwise: a value that is a lone quote character, or
\* that has mismatched quotes, has no such pair and is kept as it is.
Claim_C14 ==
    [][(pc = "load" /\ pc' = "loaded") =>
          \A i \in 1..Len(FileLines) :
              FirstFor(env, i) =>
                  LET line == FileLines[i]
                      value == PyStrip(SubSeq(line, FirstEquals(line) + 1,
                                              Len(line)))
                      paired == /\ Len(value) >= 2
                                /\ value[1] \in {DQuote, SQuote}
                                /\ value[Len(value)] = value[1]
                      expected == IF paired
                                  THEN SubSeq(value, 2, Len(value) - 1)
                                  ELSE value
                  IN /\ LineKey(line) \in DOMAIN env'
                     /\ env'[LineKey(line)] = Join(expected)]_vars

\* C15: against a server that prints exactly one line per request, in
\* receipt order, at most one request is outstanding at any moment (written
\* and its reply not yet read), the only request or reply in flight belongs
\* to the scenario in progress, and nothing is in flight when a scenario
\* sends its request or classifies its response: the line a scenario read
\* is the reply to its own request, and a reply that carries an id carries
\* the id of that request.
Thm_C15 ==
    /\ Len(inbuf) + Len(outbuf) <= 1
    /\ \A i \in 1..Len(inbuf) : inbuf[i] = Request(scen)
    /\ \A i \in 1..Len(outbuf) : outbuf[i].re = scen
    /\ pc \in {"send", "classify"} => (inbuf = <<>> /\ outbuf = <<>>)
    /\ pc = "classify" =>
         /\ LastEv = Ev("read", scen, TRUE)
         /\ (response.t = "dict" /\ Codes("id") \in DOMAIN response.v)
               => response.v[Codes("id")] = Num(Request(scen).id)

\* the fourth scenario classifies the reply it read, after three scenarios
\* that each read their own reply and passed
Wit_C15 ==
    /\ pc = "classify" /\ scen = 4
    /\ sendResult = "value"
    /\ response = JsonLoads(LError)
    /\ outcome = <<"pass", "pass", "pass", "none">>
    /\ Reads(1) = 1 /\ Reads(2) = 1 /\ Reads(3) = 1 /\ Reads(4) = 1

\* the state of the run: Stopped once stop_server has been called, Started
\* while a process is attached, NotStarted before
RunState ==
    IF StopCalls > 0 THEN "Stopped"
    ELSE IF client.process = "Popen" THEN "Started"
    ELSE "NotStarted"

\* C16: a run goes NotStarted -> Started -> Stopped.  The server is
\* spawned at most once (by a Popen that returns, fails, or is interrupted
\* after creating the child), as the first thing the run does to it, and
\* never again; a request is written or a line read only after the
\* successful spawn and before stop_server is called; once stop_server has
\* been called the run never leaves Stopped: control is past the scenarios
\* and only the termination signal and the return of stop_server follow.
Thm_C16 ==
    /\ CountEv(trace, "spawn", 0) + CountEv(trace, "fork", 0) <= 1
    /\ \A j \in 1..Len(trace) :
          /\ trace[j].e \in {"spawn", "fork"} => j = 1
          /\ trace[j].e \in {"write", "read"} =>
                /\ trace[1] = Ev("spawn", 0, TRUE)
                /\ \A i \in 1..(j - 1) : trace[i].e # "stop"
          /\ (trace[j].e = "stop" /\ j < Len(trace)) =>
                \A i \in (j + 1)..Len(trace) :
                    trace[i].e \in {"term", "stop_ret"}
    /\ RunState = "NotStarted" =>
          trace \in {<<>>, <<Ev("spawn", 0, FALSE)>>, <<Ev("fork", 0, TRUE)>>}
    /\ RunState = "Started" =>
          /\ trace[1] = Ev("spawn", 0, TRUE)
          /\ pc \in RunnerTryPcs \cup HandlerPcs \cup {"stop", "main_ki", "exited"}
    /\ RunState = "Stopped" =>
          pc \in {"ss_wait", "tbf_return", "main_ki", "exited"}

\* a run that was started, wrote its four requests, was stopped and whose
\* script has exited
Wit_C16 ==
    /\ pc = "exited"
    /\ RunState = "Stopped"
    /\ trace[1] = Ev("spawn", 0, TRUE)
    /\ WriteOrder = <<1, 2, 3, 4>>
    /\ StopReturned

\* C17: once the server process has exited, the script is never blocked:
\* the write and the read of send_request and the two steps of stop_server
\* can always proceed.  A send_request that starts after the exit fails at
\* its write and returns None without reading; a read that has nothing
\* pending returns None; with a script that keeps executing, a runner
\* whose server has exited always arrives at the stop_server call of its
\* finally clause, and the script exits.
Claim_C17 ==
    /\ []((childState = "exited" /\ pc = "send") => ENABLED send_request_write)
    /\ []((childState = "exited" /\ pc = "sr_read")
             => ENABLED send_request_read)
    /\ []((childState = "exited" /\ pc = "stop")
             => ENABLED stop_server_terminate)
    /\ []((childState = "exited" /\ pc = "ss_wait")
             => ENABLED stop_server_wait)
    /\ (childState = "exited") ~> (pc = "exited")
    /\ (childState = "exited" /\ pc \in RunnerTryPcs \cup HandlerPcs)
          ~> (pc = "stop")
    /\ [][(childState = "exited" /\ pc' = "classify") =>
            /\ pc = "send" =>
                  /\ sendResult' = "transport_error"
                  /\ response' = PyNone
                  /\ trace' = Append(trace, Ev("write", scen, FALSE))
            /\ (pc = "sr_read" /\ outbuf = <<>>) =>
                  /\ sendResult' = "no_response"
                  /\ response' = PyNone]_vars

\* C18: with a child that deals with every request written to it (prints a
\* line or closes its output) and exits when it is sent the termination
\* signal, a run of the scenario runner always ends Stopped: when the
\* script has exited after a runner with an attached server, stop_server
\* has been called.
Claim_C18 ==
    (pc = "exited" /\ client.process = "Popen") => RunState = "Stopped"

\* C19: when a key that is not set before the call appears on several
\* KEY=VALUE lines of the file, a load that returns leaves it set to the
\* value of the first of these lines; the later lines for the key change
\* nothing.
Thm_C19 ==
    [][(pc = "load" /\ pc' = "loaded") =>
          \A i \in 1..Len(FileLines) :
              FirstFor(env, i) =>
                  /\ LineKey(FileLines[i]) \in DOMAIN env'
                  /\ env'[LineKey(FileLines[i])] = LineValue(FileLines[i])]_vars

\* the load returned on a file with two lines for K, `K = "v"` written
\* with tabs and blanks around the key and before the value, and then
\* `K=w`; K has the value of the first
Wit_C19 ==
    /\ pc = "loaded"
    /\ envFile.lines = << <<Tab, "K", Blank, Equals, Tab, DQuote, "v", DQuote>>,
                          <<"K", Equals, "w">> >>
    /\ LineValue(FileLines[2]) = "w"
    /\ env["K"] = "v"

====
